---- MODULE Spec2Model ----
(***************************************************************************)
(* giterdone: the file scanner (package scanner) and the .gitignore        *)
(* synthesizer, modelled over a bounded family of file trees (Spec); the   *)
(* Action of the command in package main, step by step (SpecMain); and     *)
(* InstallCronJob of package cron on a crontab held as text (SpecCron).    *)
(*                                                                         *)
(* Strings are TLC strings; the Go string functions the scanner calls      *)
(* (strings.HasPrefix, HasSuffix, TrimPrefix, TrimSuffix, filepath.Base,   *)
(* filepath.Join, sort.Strings) are computed character by character.       *)
(***************************************************************************)
EXTENDS Integers, Sequences, FiniteSets, TLC

VARIABLES
    fs,                 \* the file tree: path -> [kind, size, err]
    includePaths,       \* cfg.IncludePaths, the argument of ScanFiles
    pc,                 \* position of the caller: "idle", "scanning", "returned"
    i,                  \* index of the include path the range loop is at
    filesToInclude,     \* ScanFiles' first result, while it is built
    patternsToExclude,  \* ScanFiles' second result, while it is built
    visits,             \* history: one record per entry the scan looked at
    calls,              \* number of ScanFiles calls started so far
    prevResult,         \* what the previous ScanFiles call returned
    content,            \* the text last returned by GenerateGitignoreContent
    flags,              \* the command line: --init, --status, --run-now, --dry-run
    configFile,         \* the config file: a Config, or why it cannot be loaded
    cfg,                \* main's cfg once loaded or entered in the wizard
    step,               \* position of main's Action
    repo,               \* the working directory as git sees it
    gitignore,          \* the text of ./.gitignore
    ops,                \* history: the commands and writes main has made
    logged,             \* history: the messages given to utils.LogMessage
    result,             \* what the Action returned, "running" until it does
    crontab,            \* the user's crontab, as "crontab -l" prints it
    prevCrontab,        \* history: the crontab the last InstallCronJob read
    lastJob,            \* history: the jobEntry the last InstallCronJob built
    installs            \* number of InstallCronJob calls made so far

scanVars == <<fs, includePaths, pc, i, filesToInclude, patternsToExclude,
              visits, calls, prevResult, content>>

mainVars == <<flags, configFile, cfg, step, repo, gitignore, ops, logged, result>>

cronVars == <<crontab, prevCrontab, lastJob, installs>>

vars == <<scanVars, mainVars, cronVars>>

-----------------------------------------------------------------------------
(* Bounds of the model *)

\* at most this many leaf entries are placed in the file tree
MaxFiles == 2

\* at most this many include paths are configured
MaxPaths == 2

\* at most this many ScanFiles calls are made on one tree
MaxCalls == 2

-----------------------------------------------------------------------------
(* Go string functions *)

HasPrefix(s, prefix) ==
    Len(s) >= Len(prefix) /\ SubSeq(s, 1, Len(prefix)) = prefix

HasSuffix(s, suffix) ==
    Len(s) >= Len(suffix) /\ SubSeq(s, Len(s) - Len(suffix) + 1, Len(s)) = suffix

TrimPrefix(s, prefix) ==
    IF HasPrefix(s, prefix) THEN SubSeq(s, Len(prefix) + 1, Len(s)) ELSE s

TrimSuffix(s, suffix) ==
    IF HasSuffix(s, suffix) THEN SubSeq(s, 1, Len(s) - Len(suffix)) ELSE s

\* index of the last "/" of s, 0 when there is none
RECURSIVE LastSlash(_, _)
LastSlash(s, k) ==
    IF k = 0 THEN 0
    ELSE IF SubSeq(s, k, k) = "/" THEN k
    ELSE LastSlash(s, k - 1)

\* filepath.Base on a cleaned path: the last element of the path
Base(path) ==
    IF path = "" THEN "."
    ELSE SubSeq(path, LastSlash(path, Len(path)) + 1, Len(path))

\* filepath.Dir on a cleaned relative path: all but the last element
Dir(path) ==
    IF LastSlash(path, Len(path)) = 0 THEN "."
    ELSE SubSeq(path, 1, LastSlash(path, Len(path)) - 1)

\* filepath.Join(dir, name) followed by Clean, for cleaned arguments
Join(dir, name) ==
    IF dir = "." THEN name ELSE dir \o "/" \o name

\* the characters of the model's names, in byte order
ByteOrder == ".0123456789DLSTY_abcdefghijklmnopqrstuvwxyz"

RECURSIVE Rank(_, _)
Rank(c, k) ==
    IF k > Len(ByteOrder) THEN 0
    ELSE IF SubSeq(ByteOrder, k, k) = c THEN k
    ELSE Rank(c, k + 1)

\* a < b in Go's string order (byte-wise lexical)
RECURSIVE StrLess(_, _)
StrLess(a, b) ==
    IF b = "" THEN FALSE
    ELSE IF a = "" THEN TRUE
    ELSE LET ca == Rank(SubSeq(a, 1, 1), 1)
             cb == Rank(SubSeq(b, 1, 1), 1)
         IN  IF ca # cb THEN ca < cb ELSE StrLess(Tail(a), Tail(b))

\* sort.Strings of a set of distinct names
RECURSIVE SortStrings(_)
SortStrings(S) ==
    IF S = {} THEN <<>>
    ELSE LET m == CHOOSE x \in S : \A y \in S \ {x} : StrLess(x, y)
         IN  <<m>> \o SortStrings(S \ {m})

-----------------------------------------------------------------------------
(* Package scanner: constants *)

maxFileSize == 100 * 1024 * 1024

excludePatterns == <<
    ".DS_Store", "Thumbs.db", "*.log", "*.tmp", "*.bak", "*.swp", "*.swo",
    "*.exe", "*.dll", "*.so", "*.dylib", "*.o", "*.obj", "*.pyc", "*.class",
    "*.jar", "*.war", "*.ear", "*.zip", "*.tar", "*.gz", "*.rar", "*.7z",
    "*.iso", "*.dmg", "*.bin", "*.dat", "*.db", "*.sqlite", "*.sql", "*.psd",
    "*.ai", "*.eps", "*.pdf", "*.doc", "*.docx", "*.xls", "*.xlsx", "*.ppt",
    "*.pptx", "*.odt", "*.ods", "*.odp", "*.mp3", "*.wav", "*.flac", "*.aac",
    "*.ogg", "*.wma", "*.mp4", "*.mkv", "*.avi", "*.mov", "*.wmv", "*.flv",
    "*.webm", "*.jpg", "*.jpeg", "*.png", "*.gif", "*.bmp", "*.tiff",
    "*.webp", "*.ico", "*.svg",
    "node_modules/", ".git/", ".vscode/", ".idea/", "__pycache__/", "build/",
    "dist/", "bin/", "obj/", "pkg/", "vendor/", "tmp/", "temp/", "cache/",
    "logs/", "output/", "report/", "target/",
    "*.pid", "*.lock", "*.iml", "*.ipr", "*.iws" >>

-----------------------------------------------------------------------------
(* The file tree *)

\* a regular file of the given size, a file whose lstat fails, a directory
\* whose listing fails
File(size) == [kind |-> "file", size |-> size, err |-> "none"]
Unstatable == [kind |-> "file", size |-> 0, err |-> "lstat"]
Unreadable == [kind |-> "dir", size |-> 0, err |-> "readdir"]

AtCeiling == File(maxFileSize)
OverCeiling == File(maxFileSize + 1)

\* paths (relative to the working directory) where a leaf entry may be
\* placed, each with what may be found there
Candidates ==
    [ path \in { "notes", "d/.logfile", "d/notes", "d/report.log",
                 "d/x.DS_Store", "d/mybuild/notes", "d/vendor/notes",
                 "d/src/vendor/notes", "d/src" } |->
        CASE path = "notes"        -> {File(0), OverCeiling, Unstatable}
          [] path = "d/notes"      -> {AtCeiling, OverCeiling, Unstatable}
          [] path = "d/report.log" -> {File(0), OverCeiling}
          [] path = "d/.logfile"   -> {File(0), Unstatable}
          [] path = "d/src"        -> {Unreadable}
          [] OTHER                 -> {File(0)} ]

Variants(path) == Candidates[path]

\* the proper ancestors of a path inside the working directory
RECURSIVE Ancestors(_)
Ancestors(path) ==
    IF Dir(path) = "." THEN {}
    ELSE {Dir(path)} \cup Ancestors(Dir(path))

\* the tree that holds the chosen leaves and the directories above them
MkFs(leaves, v) ==
    LET dirs == UNION { Ancestors(q) : q \in leaves }
    IN  [ q \in leaves \cup dirs |->
            IF q \in leaves THEN v[q]
            ELSE [kind |-> "dir", size |-> 0, err |-> "none"] ]

FileTrees ==
    { MkFs(leaves, v) :
        <<leaves, v>> \in
          UNION { {<<L, w>> : w \in { f \in [L -> UNION {Variants(q) : q \in L}] :
                                        \A q \in L : f[q] \in Variants(q) }} :
                  L \in { M \in SUBSET (DOMAIN Candidates) :
                            Cardinality(M) <= MaxFiles } } }

\* what a user may list as include paths: a plain file, a directory, a
\* directory inside the other one; each may be missing from the tree
PathCandidates == { "notes", "d", "d/vendor" }

RECURSIVE SeqsUpTo(_, _)
SeqsUpTo(S, n) ==
    IF n = 0 THEN { <<>> }
    ELSE SeqsUpTo(S, n - 1) \cup
         { Append(q, x) : q \in { r \in SeqsUpTo(S, n - 1) : Len(r) = n - 1 }, x \in S }

\* os.Stat(p) returns an error
StatFails(F, p) == p \notin DOMAIN F \/ F[p].err = "lstat"

\* every path of the model, and every name an entry can have
AllPaths ==
    DOMAIN Candidates \cup PathCandidates
      \cup UNION { Ancestors(q) : q \in DOMAIN Candidates }

AllNames == { Base(q) : q \in AllPaths }

\* sort.Strings over all names: a directory's listing is the part of it that
\* the directory holds
SortedNames == SortStrings(AllNames)

\* readDirNames(dir): the names in dir, sorted
ReadDirNames(F, dir) ==
    SelectSeq(SortedNames, LAMBDA n : Join(dir, n) \in DOMAIN F)

-----------------------------------------------------------------------------
(* Package scanner: the pattern tests *)

\* the directory test of the walk callback: some pattern ends in "/" and the
\* path ends with that pattern minus its last character
DirPatternMatches(path, pattern) ==
    HasSuffix(pattern, "/") /\ HasSuffix(path, SubSeq(pattern, 1, Len(pattern) - 1))

\* the loop over excludePatterns in the directory branch
DirRule(path) ==
    \E k \in 1..Len(excludePatterns) : DirPatternMatches(path, excludePatterns[k])

\* DirRule, tabulated over the paths of the model
DirRuleTable == [ q \in AllPaths |-> DirRule(q) ]

DirExcluded(path) == DirRuleTable[path]

\* the file test with the prefix side stripped of the pattern's leading "*"
\* as well, so that "*.log" would prefix-match ".logfile"
FilePatternMatches_StarStripped(name, pattern) ==
    /\ ~HasSuffix(pattern, "/")
    /\ \/ HasPrefix(name, TrimPrefix(TrimSuffix(pattern, "*"), "*"))
       \/ HasSuffix(name, TrimPrefix(pattern, "*"))

\* the file test, for one pattern
FilePatternMatches(name, pattern) ==
    /\ ~HasSuffix(pattern, "/")
    /\ \/ HasPrefix(name, TrimSuffix(pattern, "*"))
       \/ HasSuffix(name, TrimPrefix(pattern, "*"))

\* the loop over excludePatterns in the file branches
FileRule(name) ==
    \E k \in 1..Len(excludePatterns) : FilePatternMatches(name, excludePatterns[k])

\* FileRule, tabulated over the names of the model
FileRuleTable == [ n \in AllNames |-> FileRule(n) ]

\* shouldExclude after the loop, for the file at path
shouldExclude(path) == FileRuleTable[Base(path)]

\* the size test with >= in place of >
TooLarge_AtCeiling(size) == size >= maxFileSize

\* info.Size() > maxFileSize
TooLarge(size) == size > maxFileSize

-----------------------------------------------------------------------------
(* Package scanner: ScanFiles *)

\* The accumulator of a scan: inc and exc are the two slices ScanFiles appends
\* to; vis is the history of the entries looked at, one record per callback
\* invocation or include path, with the branch of the code that handled it.
Visit(ip, path, class) == [ip |-> ip, path |-> path, class |-> class]

Note(acc, ip, path, class) ==
    [acc EXCEPT !.vis = Append(@, Visit(ip, path, class))]

\* the include put at the front of the slice instead of appended to it
Include_Prepend(acc, ip, path) ==
    [Note(acc, ip, path, "included") EXCEPT !.inc = <<path>> \o @]

Include(acc, ip, path) ==
    [Note(acc, ip, path, "included") EXCEPT !.inc = Append(@, path)]

Exclude(acc, ip, path, entry, class) ==
    [Note(acc, ip, path, class) EXCEPT !.exc = Append(@, entry)]

\* the callback handing the walk error back, which ends the walk
OnWalkError_Abort == "err"

\* what the callback returns on a walk error: nil, so the walk continues
OnWalkError == "nil"

\* the callback returning nil for a matched directory, so the walk goes in
OnDirExcluded_Descend == "nil"

\* what the callback returns for a directory that matches a pattern
OnDirExcluded == "SkipDir"

\* the callback given to filepath.Walk for include path p (the ip-th one),
\* called on path with err set when the walk reports an error for it
walkFn(F, p, ip, path, err, acc) ==
    IF err
    THEN [acc |-> Note(acc, ip, path, "skip-on-stat-error"), ret |-> OnWalkError]
    ELSE IF path = p
    THEN [acc |-> Note(acc, ip, path, "walk-root"), ret |-> "nil"]
    ELSE IF F[path].kind = "dir"
    THEN IF DirExcluded(path)
         THEN [acc |-> Exclude(acc, ip, path, Base(path) \o "/",
                               "excluded-by-directory-rule"),
               ret |-> OnDirExcluded]
         ELSE [acc |-> Note(acc, ip, path, "directory-entered"), ret |-> "nil"]
    ELSE IF TooLarge(F[path].size)
    THEN [acc |-> Exclude(acc, ip, path, Base(path), "excluded-by-size"),
          ret |-> "nil"]
    ELSE IF shouldExclude(path)
    THEN [acc |-> Exclude(acc, ip, path, Base(path), "excluded-by-pattern"),
          ret |-> "nil"]
    ELSE [acc |-> Include(acc, ip, path), ret |-> "nil"]

\* filepath.walk: the callback on path, then on the sorted names below it
RECURSIVE walk(_, _, _, _, _), walkNames(_, _, _, _, _, _)

\* walk as filepath.Walk was before it listed a directory ahead of the
\* callback: the callback runs on the directory, and once more with the
\* error when the listing fails
walk_CallbackFirst(F, p, ip, path, acc) ==
    LET r1 == walkFn(F, p, ip, path, FALSE, acc)
    IN  IF F[path].kind # "dir" \/ r1.ret # "nil"
        THEN r1
        ELSE IF F[path].err = "readdir"
        THEN walkFn(F, p, ip, path, TRUE, r1.acc)
        ELSE walkNames(F, p, ip, path, ReadDirNames(F, path), r1.acc)

walk(F, p, ip, path, acc) ==
    IF F[path].kind # "dir"
    THEN walkFn(F, p, ip, path, FALSE, acc)
    ELSE LET readErr == F[path].err = "readdir"
             r1 == walkFn(F, p, ip, path, readErr, acc)
         IN  IF readErr \/ r1.ret # "nil"
             THEN r1
             ELSE walkNames(F, p, ip, path, ReadDirNames(F, path), r1.acc)

walkNames(F, p, ip, dir, names, acc) ==
    IF names = <<>>
    THEN [acc |-> acc, ret |-> "nil"]
    ELSE LET filename == Join(dir, Head(names))
         IN  IF F[filename].err = "lstat"
             THEN LET r == walkFn(F, p, ip, filename, TRUE, acc)
                  IN  IF r.ret # "nil" /\ r.ret # "SkipDir"
                      THEN r
                      ELSE walkNames(F, p, ip, dir, Tail(names), r.acc)
             ELSE LET r == walk(F, p, ip, filename, acc)
                  IN  IF r.ret # "nil" /\ (F[filename].kind # "dir" \/ r.ret # "SkipDir")
                      THEN r
                      ELSE walkNames(F, p, ip, dir, Tail(names), r.acc)

\* filepath.Walk(p, callback); ScanFiles drops the error it returns
Walk(F, p, ip, acc) ==
    IF F[p].err = "lstat"
    THEN walkFn(F, p, ip, p, TRUE, acc).acc
    ELSE walk(F, p, ip, p, acc).acc

\* ScanPlainFile with the "continue" after the size check left out: an
\* oversized file falls through to the pattern test and the include
ScanPlainFile_NoContinue(F, p, ip, acc) ==
    LET sized == IF TooLarge(F[p].size)
                 THEN Exclude(acc, ip, p, Base(p), "excluded-by-size")
                 ELSE acc
    IN  IF shouldExclude(p)
        THEN Exclude(sized, ip, p, Base(p), "excluded-by-pattern")
        ELSE Include(sized, ip, p)

\* the branch for an include path that is a plain file
ScanPlainFile(F, p, ip, acc) ==
    IF TooLarge(F[p].size)
    THEN Exclude(acc, ip, p, Base(p), "excluded-by-size")
    ELSE IF shouldExclude(p)
    THEN Exclude(acc, ip, p, Base(p), "excluded-by-pattern")
    ELSE Include(acc, ip, p)

\* one iteration of the loop over includePaths
ScanPath(F, p, ip, acc) ==
    IF StatFails(F, p)
    THEN Note(acc, ip, p, "skip-on-stat-error")
    ELSE IF F[p].kind = "dir"
    THEN Walk(F, p, ip, acc)
    ELSE ScanPlainFile(F, p, ip, acc)

\* the result slices kept from the call before (as package-level variables
\* would be) and appended to again
DeclareResults_Static(inc, exc) == [inc |-> inc, exc |-> exc, vis |-> <<>>]

\* the two result slices as ScanFiles declares them: nil, whatever an earlier
\* call left behind
DeclareResults(inc, exc) == [inc |-> <<>>, exc |-> <<>>, vis |-> <<>>]

\* ScanFiles(paths) on tree F, as a function: the loop run to its end
RECURSIVE ScanFrom(_, _, _, _)
ScanFrom(F, paths, ip, acc) ==
    IF ip > Len(paths) THEN acc
    ELSE ScanFrom(F, paths, ip + 1, ScanPath(F, paths[ip], ip, acc))

ScanFiles(F, paths) == ScanFrom(F, paths, 1, DeclareResults(<<>>, <<>>))

-----------------------------------------------------------------------------
(* Package scanner: GenerateGitignoreContent *)

Header1 == "# Giterdone generated .gitignore\n"
Header2 == "# Files and directories automatically excluded by Giterdone\n\n"

RECURSIVE WritePatterns(_, _)
WritePatterns(sb, excludedPatterns) ==
    IF excludedPatterns = <<>> THEN sb
    ELSE WritePatterns(sb \o Head(excludedPatterns) \o "\n", Tail(excludedPatterns))

\* the rendering with each distinct pattern written only once
RECURSIVE WritePatternsOnce(_, _, _)
WritePatternsOnce(sb, excludedPatterns, seen) ==
    IF excludedPatterns = <<>> THEN sb
    ELSE IF Head(excludedPatterns) \in seen
    THEN WritePatternsOnce(sb, Tail(excludedPatterns), seen)
    ELSE WritePatternsOnce(sb \o Head(excludedPatterns) \o "\n", Tail(excludedPatterns),
                           seen \cup {Head(excludedPatterns)})

GenerateGitignoreContent_Dedup(excludedPatterns) ==
    WritePatternsOnce(Header1 \o Header2, excludedPatterns, {})

GenerateGitignoreContent(excludedPatterns) ==
    WritePatterns(Header1 \o Header2, excludedPatterns)

-----------------------------------------------------------------------------
(* The callers: main's backup step and the setup wizard *)

NoResult == [inc |-> <<>>, exc |-> <<>>, made |-> FALSE]

\* the scanner with no call made yet
ScannerIdle ==
    /\ pc = "idle"
    /\ i = 1
    /\ filesToInclude = <<>>
    /\ patternsToExclude = <<>>
    /\ visits = <<>>
    /\ calls = 0
    /\ prevResult = NoResult
    /\ content = ""

\* no Config value: main's cfg before LoadConfig or the wizard gave one
NoConfig == [GitHubRepo |-> "", AuthMethod |-> "", BackupFrequency |-> ""]

NoFlags == [init |-> FALSE, status |-> FALSE, runNow |-> FALSE, dryRun |-> FALSE]

\* main not started: the scanner is looked at on its own
MainNotRun ==
    /\ flags = NoFlags
    /\ configFile = "missing"
    /\ cfg = NoConfig
    /\ step = "none"
    /\ repo = [isRepo |-> FALSE, origin |-> "none"]
    /\ gitignore = ""
    /\ ops = <<>>
    /\ logged = <<>>
    /\ result = "running"

\* no InstallCronJob call made, on an empty crontab
CronNotRun ==
    /\ crontab = ""
    /\ prevCrontab = ""
    /\ lastJob = ""
    /\ installs = 0

Init ==
    /\ fs \in FileTrees
    /\ includePaths \in SeqsUpTo(PathCandidates, MaxPaths)
    /\ pc = "idle"
    /\ i = 1
    /\ filesToInclude = <<>>
    /\ patternsToExclude = <<>>
    /\ visits = <<>>
    /\ calls = 0
    /\ prevResult = NoResult
    /\ content = ""
    /\ MainNotRun
    /\ CronNotRun

\* a caller enters ScanFiles(cfg.IncludePaths); it keeps what the call before
\* returned
CallScanFiles ==
    /\ pc \in {"idle", "returned"}
    /\ calls < MaxCalls
    /\ pc' = "scanning"
    /\ i' = 1
    /\ LET fresh == DeclareResults(filesToInclude, patternsToExclude)
       IN  /\ filesToInclude' = fresh.inc
           /\ patternsToExclude' = fresh.exc
    /\ visits' = <<>>
    /\ calls' = calls + 1
    /\ prevResult' = IF pc = "returned"
                     THEN [inc |-> filesToInclude, exc |-> patternsToExclude,
                           made |-> TRUE]
                     ELSE prevResult
    /\ content' = ""
    /\ UNCHANGED <<fs, includePaths, mainVars, cronVars>>

\* one iteration of "for _, p := range includePaths"
ScanIncludePath ==
    /\ pc = "scanning"
    /\ i <= Len(includePaths)
    /\ LET acc == ScanPath(fs, includePaths[i], i,
                           [inc |-> filesToInclude, exc |-> patternsToExclude,
                            vis |-> visits])
       IN  /\ filesToInclude' = acc.inc
           /\ patternsToExclude' = acc.exc
           /\ visits' = acc.vis
    /\ i' = i + 1
    /\ UNCHANGED <<fs, includePaths, pc, calls, prevResult, content>>
    /\ UNCHANGED <<mainVars, cronVars>>

\* "return filesToInclude, patternsToExclude"
ReturnScanFiles ==
    /\ pc = "scanning"
    /\ i > Len(includePaths)
    /\ pc' = "returned"
    /\ UNCHANGED <<fs, includePaths, i, filesToInclude, patternsToExclude,
                   visits, calls, prevResult, content, mainVars, cronVars>>

\* the caller renders the exclude sequence it got
GenerateGitignore ==
    /\ pc = "returned"
    /\ content = ""
    /\ content' = GenerateGitignoreContent(patternsToExclude)
    /\ UNCHANGED <<fs, includePaths, pc, i, filesToInclude, patternsToExclude,
                   visits, calls, prevResult, mainVars, cronVars>>

Next ==
    \/ CallScanFiles
    \/ ScanIncludePath
    \/ ReturnScanFiles
    \/ GenerateGitignore

Spec == Init /\ [][Next]_vars

-----------------------------------------------------------------------------
(* Vocabulary of the properties *)

Range(seq) == { seq[k] : k \in DOMAIN seq }

Count(x, seq) == Cardinality({ k \in DOMAIN seq : seq[k] = x })

\* path lies strictly below directory dir
StrictlyInside(path, dir) == HasPrefix(path, dir \o "/")

ExcludedClasses ==
    { "excluded-by-size", "excluded-by-pattern", "excluded-by-directory-rule" }

\* the five outcomes the specification names
FiveClasses == ExcludedClasses \cup { "included", "skip-on-stat-error" }

\* the entry a visit of an excluded class appends to patternsToExclude
EntryOf(v) ==
    IF v.class = "excluded-by-directory-rule" THEN Base(v.path) \o "/"
    ELSE Base(v.path)

IncludedVisits == SelectSeq(visits, LAMBDA v : v.class = "included")

ExcludedVisits == SelectSeq(visits, LAMBDA v : v.class \in ExcludedClasses)

\* a regular file whose lstat succeeds
IsRegular(path) ==
    path \in DOMAIN fs /\ fs[path].kind = "file" /\ fs[path].err = "none"

\* a directory whose lstat succeeds
IsDirectory(path) ==
    path \in DOMAIN fs /\ fs[path].kind = "dir" /\ fs[path].err # "lstat"

-----------------------------------------------------------------------------
(* C1 *)

\* C1 as stated: when ScanFiles has returned, no string is both in
\* filesToInclude and in patternsToExclude, and no scanned file is both
\* included and excluded.
C1_Original ==
    pc = "returned" =>
        /\ Range(filesToInclude) \cap Range(patternsToExclude) = {}
        /\ \A a, b \in DOMAIN visits :
               visits[a].path = visits[b].path /\ IsRegular(visits[a].path)
                   => ~(visits[a].class = "included"
                        /\ visits[b].class \in ExcludedClasses)

\* C1 as amended: when ScanFiles has returned, filesToInclude is exactly the
\* paths of the entries handled as included, in order, patternsToExclude is
\* exactly the base names (with "/" for a pruned directory) of the entries
\* handled as excluded, in order, no entry is handled twice for one include
\* path, and no regular file is both included and excluded. (The two
\* sequences may still share a string: an included path can equal the base
\* name of an excluded file.)
C1_Partition ==
    pc = "returned" =>
        /\ filesToInclude = [k \in DOMAIN IncludedVisits |-> IncludedVisits[k].path]
        /\ patternsToExclude = [k \in DOMAIN ExcludedVisits |-> EntryOf(ExcludedVisits[k])]
        /\ \A a, b \in DOMAIN visits :
               a # b => <<visits[a].ip, visits[a].path>> # <<visits[b].ip, visits[b].path>>
        /\ \A a, b \in DOMAIN visits :
               visits[a].path = visits[b].path /\ IsRegular(visits[a].path)
                   => ~(visits[a].class = "included"
                        /\ visits[b].class \in ExcludedClasses)

\* C1 witness: a returned scan that included one file and excluded another
\* whose base name is the included path.
C1_Witness ==
    /\ pc = "returned"
    /\ filesToInclude # <<>>
    /\ Range(filesToInclude) \cap Range(patternsToExclude) # {}

-----------------------------------------------------------------------------
(* C2 *)

\* C2 as stated: every entry visited during a scan is classified exactly
\* once, as one of the five outcomes included, excluded-by-size,
\* excluded-by-pattern, excluded-by-directory-rule, skip-on-stat-error.
C2_Original ==
    /\ \A k \in DOMAIN visits : visits[k].class \in FiveClasses
    /\ \A a, b \in DOMAIN visits :
           a # b => <<visits[a].ip, visits[a].path>> # <<visits[b].ip, visits[b].path>>

\* the one outcome an entry at path q must get in the scan of include path p
ExpectedClass(p, q) ==
    IF q \notin DOMAIN fs \/ fs[q].err # "none" THEN "skip-on-stat-error"
    ELSE IF fs[q].kind = "dir"
    THEN IF q = p THEN "walk-root"
         ELSE IF DirExcluded(q) THEN "excluded-by-directory-rule"
         ELSE "directory-entered"
    ELSE IF fs[q].size > maxFileSize THEN "excluded-by-size"
    ELSE IF shouldExclude(q) THEN "excluded-by-pattern"
    ELSE "included"

\* C2 as amended: every include path already processed and every entry the
\* walk reaches is handled exactly once per include path. A regular file gets
\* exactly one of included, excluded-by-size, excluded-by-pattern; a failing
\* entry gets skip-on-stat-error; a directory gets excluded-by-directory-rule
\* or, when it is the root of the walk or matches no directory pattern, none
\* of the five outcomes: nothing is recorded for it and the walk goes on
\* inside it.
C2_Classified ==
    /\ \A k \in DOMAIN visits :
           visits[k].class = ExpectedClass(includePaths[visits[k].ip], visits[k].path)
    /\ \A a, b \in DOMAIN visits :
           a # b => <<visits[a].ip, visits[a].path>> # <<visits[b].ip, visits[b].path>>
    /\ pc # "idle" =>
           \A ip \in 1..(i - 1) :
               \E k \in DOMAIN visits :
                   visits[k].ip = ip /\ visits[k].path = includePaths[ip]
    /\ \A q \in DOMAIN fs :
           LET parent == Dir(q)
           IN  \A k \in DOMAIN visits :
                   (/\ visits[k].path = parent
                    /\ visits[k].class \in {"walk-root", "directory-entered"})
                       => \E m \in DOMAIN visits :
                              visits[m].ip = visits[k].ip /\ visits[m].path = q

\* C2 witness: a returned scan that walked a directory, went into a
\* subdirectory, included a file and skipped a failing entry.
C2_Witness ==
    /\ pc = "returned"
    /\ \E a, b, c, d \in DOMAIN visits :
           /\ visits[a].class = "walk-root"
           /\ visits[b].class = "directory-entered"
           /\ visits[c].class = "included"
           /\ visits[d].class = "skip-on-stat-error"

-----------------------------------------------------------------------------
(* C3 *)

\* the directories named vendor that lie above path and strictly below p
VendorDirsBetween(p, path) ==
    { a \in Ancestors(path) : Base(a) = "vendor" /\ StrictlyInside(a, p) }

\* p is a directory include path with a directory named vendor below it
HasVendorBelow(p) ==
    /\ IsDirectory(p)
    /\ \E q \in DOMAIN fs :
           IsDirectory(q) /\ Base(q) = "vendor" /\ StrictlyInside(q, p)

\* no entry of the tree fails to stat or to list
ErrorFree == \A q \in DOMAIN fs : fs[q].err = "none"

\* C3 as stated (already on a tree where nothing fails): when some directory
\* include path has a directory named vendor below it, the returned
\* filesToInclude holds no path inside a vendor directory and
\* patternsToExclude holds "vendor/" exactly once.
C3_Original ==
    (/\ pc = "returned"
     /\ ErrorFree
     /\ \E ip \in DOMAIN includePaths : HasVendorBelow(includePaths[ip]))
        => /\ \A k \in DOMAIN filesToInclude :
                  \A a \in Ancestors(filesToInclude[k]) : Base(a) # "vendor"
           /\ Count("vendor/", patternsToExclude) = 1

\* visits of a readable directory named vendor that is not the walk's root
VendorVisits ==
    { k \in DOMAIN visits :
        /\ Base(visits[k].path) = "vendor"
        /\ visits[k].path # includePaths[visits[k].ip]
        /\ IsDirectory(visits[k].path)
        /\ fs[visits[k].path].err = "none" }

\* C3 as amended: in the walk of one directory include path, a directory
\* named vendor below that include path is pruned where the walk reaches it:
\* the walk puts no path from inside it into filesToInclude, and "vendor/" is
\* appended to patternsToExclude once for every such directory reached, so it
\* occurs as many times as vendor directories were reached (over all include
\* paths), not exactly once.
C3_VendorPruned ==
    pc = "returned" =>
        /\ \A k \in DOMAIN visits :
               visits[k].class = "included" =>
                   VendorDirsBetween(includePaths[visits[k].ip], visits[k].path) = {}
        /\ \A k \in VendorVisits : visits[k].class = "excluded-by-directory-rule"
        /\ Count("vendor/", patternsToExclude) = Cardinality(VendorVisits)

\* C3 witness: a returned scan that reached two vendor directories, held a
\* file inside one of them, and recorded "vendor/" twice.
C3_Witness ==
    /\ pc = "returned"
    /\ Cardinality(VendorVisits) = 2
    /\ Count("vendor/", patternsToExclude) = 2
    /\ \E q \in DOMAIN fs :
           IsRegular(q) /\ \E k \in VendorVisits : StrictlyInside(q, visits[k].path)

-----------------------------------------------------------------------------
(* C4 *)

\* name equals some built-in directory pattern with its trailing "/" removed
EqualsDirPattern(name) ==
    \E k \in 1..Len(excludePatterns) :
        /\ HasSuffix(excludePatterns[k], "/")
        /\ name = TrimSuffix(excludePatterns[k], "/")

\* visits of a subdirectory met during a walk (not its root, no error)
SubdirVisits ==
    { k \in DOMAIN visits :
        /\ IsDirectory(visits[k].path)
        /\ fs[visits[k].path].err = "none"
        /\ visits[k].path # includePaths[visits[k].ip] }

\* C4 as stated: a subdirectory met during the walk is excluded by the
\* directory rule exactly when its base name equals a directory pattern minus
\* the trailing "/"; any other subdirectory (mybuild against build/) is
\* descended into.
C4_Claim ==
    \A k \in SubdirVisits :
        /\ (visits[k].class = "excluded-by-directory-rule")
               = EqualsDirPattern(Base(visits[k].path))
        /\ ~EqualsDirPattern(Base(visits[k].path)) =>
               \A q \in DOMAIN fs :
                   Dir(q) = visits[k].path =>
                       \E m \in DOMAIN visits :
                           visits[m].ip = visits[k].ip /\ visits[m].path = q

-----------------------------------------------------------------------------
(* C5 *)

\* the reference rule of the claim, for one file pattern
RefMatches(name, pattern) ==
    \/ HasPrefix(pattern, "*") /\ HasSuffix(name, TrimPrefix(pattern, "*"))
    \/ HasPrefix(name, TrimSuffix(pattern, "*"))

FilePatterns ==
    { excludePatterns[k] : k \in { m \in 1..Len(excludePatterns) :
                                     ~HasSuffix(excludePatterns[m], "/") } }

\* visits of a regular file that passed the size test
SmallFileVisits ==
    { k \in DOMAIN visits :
        IsRegular(visits[k].path) /\ fs[visits[k].path].size <= maxFileSize }

\* C5 as stated: for every file the scanner tests against the patterns, its
\* decision for each file pattern equals the reference rule (suffix match
\* only for a pattern that starts with "*", prefix match with the trailing
\* "*" removed), and so the file is excluded by pattern exactly when the
\* reference rule matches some file pattern.
C5_Claim ==
    \A k \in SmallFileVisits :
        /\ \A pattern \in FilePatterns :
               FilePatternMatches(Base(visits[k].path), pattern)
                   = RefMatches(Base(visits[k].path), pattern)
        /\ (visits[k].class = "excluded-by-pattern")
               = (\E pattern \in FilePatterns : RefMatches(Base(visits[k].path), pattern))

-----------------------------------------------------------------------------
(* C6 *)

\* C6 as stated: a file of at most 100 MiB whose base name starts with ".log"
\* is recorded in patternsToExclude and not put in filesToInclude, and a file
\* named report.log is excluded.
C6_Original ==
    \A k \in SmallFileVisits :
        /\ HasPrefix(Base(visits[k].path), ".log") =>
               /\ visits[k].class = "excluded-by-pattern"
               /\ Base(visits[k].path) \in Range(patternsToExclude)
               /\ visits[k].path \notin Range(filesToInclude)
        /\ Base(visits[k].path) = "report.log" =>
               visits[k].class = "excluded-by-pattern"

\* C6 as amended: pattern "*.log" matches a name only by the suffix ".log" or
\* by the literal prefix "*.log"; it does not prefix-match a name that starts
\* with ".log". A file of at most 100 MiB named .logfile is put in
\* filesToInclude and nothing is recorded for it in patternsToExclude; a file
\* named report.log is excluded through the suffix test: its base name is
\* recorded in patternsToExclude and its path is not in filesToInclude.
C6_LogPattern ==
    \A k \in SmallFileVisits :
        LET name == Base(visits[k].path)
        IN  /\ FilePatternMatches(name, "*.log")
                   = (HasSuffix(name, ".log") \/ HasPrefix(name, "*.log"))
            /\ name = ".logfile" =>
                   /\ visits[k].class = "included"
                   /\ visits[k].path \in Range(filesToInclude)
                   /\ name \notin Range(patternsToExclude)
            /\ name = "report.log" =>
                   /\ visits[k].class = "excluded-by-pattern"
                   /\ HasSuffix(name, TrimPrefix("*.log", "*"))
                   /\ name \in Range(patternsToExclude)
                   /\ visits[k].path \notin Range(filesToInclude)

\* C6 witness: a returned scan that included .logfile and excluded report.log.
C6_Witness ==
    /\ pc = "returned"
    /\ \E a, b \in SmallFileVisits :
           /\ Base(visits[a].path) = ".logfile" /\ visits[a].class = "included"
           /\ Base(visits[b].path) = "report.log"
           /\ visits[b].class = "excluded-by-pattern"

-----------------------------------------------------------------------------
(* C7 *)

\* C7: a visited regular file is excluded by size exactly when its size is
\* strictly greater than 104857600 bytes, whatever its name and whether it is
\* an include path or was reached by a walk; its base name is then in
\* patternsToExclude and its path is not in filesToInclude. The size test
\* comes first: an oversized file is never excluded-by-pattern.
C7_Oversized ==
    \A k \in DOMAIN visits :
        IsRegular(visits[k].path) =>
            /\ (visits[k].class = "excluded-by-size")
                   = (fs[visits[k].path].size > 100 * 1024 * 1024)
            /\ fs[visits[k].path].size > 100 * 1024 * 1024 =>
                   /\ Count(Base(visits[k].path), patternsToExclude) >= 1
                   /\ visits[k].path \notin Range(filesToInclude)
                   /\ visits[k].class # "excluded-by-pattern"

\* C7 witness: a returned scan that excluded by size one file given as an
\* include path and one file met by a walk, one of them with a name that
\* matches a pattern as well.
C7_Witness ==
    /\ pc = "returned"
    /\ \E a, b \in DOMAIN visits :
           /\ visits[a].class = "excluded-by-size"
           /\ visits[a].path = includePaths[visits[a].ip]
           /\ visits[b].class = "excluded-by-size"
           /\ visits[b].path # includePaths[visits[b].ip]
           /\ FileRule(Base(visits[b].path))

-----------------------------------------------------------------------------
(* C8 *)

\* the tree without its failing entries and without what lies below them
Healthy(F) ==
    [ q \in { r \in DOMAIN F :
                /\ F[r].err = "none"
                /\ \A a \in Ancestors(r) : F[a].err = "none" } |-> F[q] ]

\* the include paths without those that cannot be stat'ed
GoodPaths == SelectSeq(includePaths, LAMBDA p : ~StatFails(fs, p))

\* C8: errors never abort a scan. When ScanFiles has returned, both results
\* are exactly what a scan returns when every include path that cannot be
\* stat'ed is left out of the list and every entry the walk reports an error
\* for is absent from the tree; in that scan no error occurs at all.
C8_ErrorsSkipped ==
    pc = "returned" =>
        LET ref == ScanFiles(Healthy(fs), GoodPaths)
        IN  /\ filesToInclude = ref.inc
            /\ patternsToExclude = ref.exc
            /\ \A k \in DOMAIN ref.vis : ref.vis[k].class # "skip-on-stat-error"

\* C8 witness: a returned scan with an include path that could not be
\* stat'ed and a walk entry that failed, each followed by an entry that was
\* included.
C8_Witness ==
    /\ pc = "returned"
    /\ \E a, b, c \in DOMAIN visits :
           /\ a < b /\ b < c
           /\ visits[a].class = "skip-on-stat-error"
           /\ visits[a].path = includePaths[visits[a].ip]
           /\ visits[b].class = "skip-on-stat-error"
           /\ visits[b].path # includePaths[visits[b].ip]
           /\ visits[c].class = "included"
           /\ visits[c].ip = visits[b].ip

-----------------------------------------------------------------------------
(* C9 *)

\* the lines of a text: the pieces between its "\n" characters
SplitLines(s) ==
    LET breaks == { k \in 1..Len(s) : SubSeq(s, k, k) = "\n" }
        n == Cardinality(breaks)
        Break(j) == IF j = 0 THEN 0
                    ELSE IF j > n THEN Len(s) + 1
                    ELSE CHOOSE k \in breaks :
                             Cardinality({ m \in breaks : m < k }) = j - 1
    IN  [ j \in 1..(n + 1) |-> SubSeq(s, Break(j - 1) + 1, Break(j) - 1) ]

\* C9: the text GenerateGitignoreContent returned for patternsToExclude is
\* the two fixed comment lines, one blank line, then the entries of
\* patternsToExclude, each on its own line, in input order, with nothing
\* added, dropped, reordered or de-duplicated, and a final newline.
C9_Rendered ==
    content # "" =>
        SplitLines(content)
            = << "# Giterdone generated .gitignore",
                 "# Files and directories automatically excluded by Giterdone",
                 "" >> \o patternsToExclude \o << "" >>

\* C9 witness: a text rendered from an exclude sequence that holds the same
\* entry twice.
C9_Witness ==
    /\ content # ""
    /\ Len(patternsToExclude) >= 2
    /\ \E a, b \in DOMAIN patternsToExclude :
           a # b /\ patternsToExclude[a] = patternsToExclude[b]

-----------------------------------------------------------------------------
(* C10 *)

\* C10: a ScanFiles call with the same include paths on the same tree returns
\* the same two sequences, element for element, as the call before it.
C10_Idempotent ==
    (pc = "returned" /\ prevResult.made) =>
        /\ filesToInclude = prevResult.inc
        /\ patternsToExclude = prevResult.exc

\* C10 witness: a second call has returned, with files included and entries
\* excluded.
C10_Witness ==
    /\ pc = "returned"
    /\ prevResult.made
    /\ filesToInclude # <<>>
    /\ patternsToExclude # <<>>

-----------------------------------------------------------------------------
(* C11 *)

\* path a comes before path b in a walk that lists every directory in sorted
\* order and goes into a directory right after visiting it: a is above b, or
\* where the two paths part a's element is the smaller name
RECURSIVE WalkBefore(_, _)
WalkBefore(a, b) ==
    IF b = "" THEN FALSE
    ELSE IF a = "" THEN TRUE
    ELSE LET ca == SubSeq(a, 1, 1)
             cb == SubSeq(b, 1, 1)
         IN  IF ca = cb THEN WalkBefore(Tail(a), Tail(b))
             ELSE IF ca = "/" THEN TRUE
             ELSE IF cb = "/" THEN FALSE
             ELSE Rank(ca, 1) < Rank(cb, 1)

\* C11: at every point of a scan the entries looked at so far are grouped by
\* include path, earlier include paths first; the entries of one walk are in
\* the order of the walk (a directory before what it holds, the names of one
\* directory in sorted order); filesToInclude is the paths of the included
\* entries in that order and patternsToExclude the names of the excluded
\* entries in that order, nothing moved and nothing dropped.
C11_TraversalOrder ==
    /\ \A k \in 1..(Len(visits) - 1) :
           \/ visits[k].ip < visits[k + 1].ip
           \/ /\ visits[k].ip = visits[k + 1].ip
              /\ WalkBefore(visits[k].path, visits[k + 1].path)
    /\ filesToInclude = [ k \in DOMAIN IncludedVisits |-> IncludedVisits[k].path ]
    /\ patternsToExclude = [ k \in DOMAIN ExcludedVisits |-> EntryOf(ExcludedVisits[k]) ]

\* C11 witness: a returned scan where a file of the second include path
\* follows a file of the first one that sorts after it, and where one walk
\* gave an included file and, later, an excluded entry.
C11_Witness ==
    /\ pc = "returned"
    /\ \E j, k \in DOMAIN filesToInclude :
           j < k /\ StrLess(filesToInclude[k], filesToInclude[j])
    /\ \E j, k \in DOMAIN visits :
           /\ j < k
           /\ visits[j].ip < visits[k].ip
           /\ visits[j].class = "included"
           /\ visits[k].class = "included"
    /\ \E j, k \in DOMAIN visits :
           /\ j < k
           /\ visits[j].ip = visits[k].ip
           /\ visits[j].class = "included"
           /\ visits[k].class \in ExcludedClasses

-----------------------------------------------------------------------------
(* Package cron *)

\* at most this many lines are in the crontab before the first install
MaxCronLines == 2

\* at most this many InstallCronJob calls are made on one crontab
MaxInstalls == 2

\* strings.Contains
Contains(s, substr) ==
    \E k \in 1..(Len(s) - Len(substr) + 1) :
        SubSeq(s, k, k + Len(substr) - 1) = substr

\* strings.Split(s, sep) for a separator of one character
Split(s, sep) ==
    LET breaks == { k \in 1..Len(s) : SubSeq(s, k, k) = sep }
        n == Cardinality(breaks)
        Break(j) == IF j = 0 THEN 0
                    ELSE IF j > n THEN Len(s) + 1
                    ELSE CHOOSE k \in breaks :
                             Cardinality({ m \in breaks : m < k }) = j - 1
    IN  [ j \in 1..(n + 1) |-> SubSeq(s, Break(j - 1) + 1, Break(j) - 1) ]

\* strings.Join(elems, sep)
RECURSIVE StringsJoin(_, _)
StringsJoin(elems, sep) ==
    IF elems = <<>> THEN ""
    ELSE IF Len(elems) = 1 THEN elems[1]
    ELSE elems[1] \o sep \o StringsJoin(Tail(elems), sep)

UpperCase == "ABCDEFGHIJKLMNOPQRSTUVWXYZ"
LowerCase == "abcdefghijklmnopqrstuvwxyz"

\* strings.ToLower on ASCII text
RECURSIVE ToLower(_)
ToLower(s) ==
    IF s = "" THEN ""
    ELSE LET c == SubSeq(s, 1, 1)
             at == { k \in 1..Len(UpperCase) : SubSeq(UpperCase, k, k) = c }
         IN  (IF at = {} THEN c
              ELSE LET k == CHOOSE k \in at : TRUE IN SubSeq(LowerCase, k, k))
             \o ToLower(Tail(s))

IsSpace(c) == c \in { " ", "\t", "\n", "\r" }

\* len(strings.Fields(spec)): the number of runs of non-space characters
NumFields(spec) ==
    Cardinality({ k \in 1..Len(spec) :
                    /\ ~IsSpace(SubSeq(spec, k, k))
                    /\ (k = 1 \/ IsSpace(SubSeq(spec, k - 1, k - 1))) })

\* utils.IsValidCronSpec
IsValidCronSpec(spec) == NumFields(spec) = 5 \/ NumFields(spec) = 6

\* frequencyToCronSpec: the cron spec, or ok = FALSE for the error
frequencyToCronSpec(frequency) ==
    LET f == ToLower(frequency)
    IN  CASE f = "hourly"           -> [spec |-> "0 * * * *", ok |-> TRUE]
          [] f = "daily"            -> [spec |-> "0 0 * * *", ok |-> TRUE]
          [] f = "weekly"           -> [spec |-> "0 0 * * 0", ok |-> TRUE]
          [] f = "monthly"          -> [spec |-> "0 0 1 * *", ok |-> TRUE]
          [] f = "every 5 minutes"  -> [spec |-> "*/5 * * * *", ok |-> TRUE]
          [] f = "every 15 minutes" -> [spec |-> "*/15 * * * *", ok |-> TRUE]
          [] f = "every 30 minutes" -> [spec |-> "*/30 * * * *", ok |-> TRUE]
          [] OTHER -> IF IsValidCronSpec(frequency)
                      THEN [spec |-> frequency, ok |-> TRUE]
                      ELSE [spec |-> "", ok |-> FALSE]

Marker == "# Giterdone backup job"

JobEntry(cronSpec, appPath) ==
    cronSpec \o " " \o appPath \o " --run-now " \o Marker \o "\n"

removeExistingGiterdoneJob(crontabContent) ==
    StringsJoin(SelectSeq(Split(crontabContent, "\n"),
                          LAMBDA line : ~Contains(line, Marker)),
                "\n")

\* InstallCronJob(frequency, appPath) on crontab current; readOk and writeOk
\* say whether "crontab -l" and "crontab -" succeed.  Gives the error
\* returned, the crontab left behind and the jobEntry that was built.
InstallCronJob(current, frequency, appPath, readOk, writeOk) ==
    LET cronSpec == frequencyToCronSpec(frequency)
        jobEntry == JobEntry(cronSpec.spec, appPath)
        newCrontab == removeExistingGiterdoneJob(current) \o jobEntry
    IN  IF ~cronSpec.ok
        THEN [err |-> "invalid backup frequency", crontab |-> current, job |-> ""]
        ELSE IF ~readOk
        THEN [err |-> "failed to read crontab", crontab |-> current, job |-> ""]
        ELSE IF ~writeOk
        THEN [err |-> "error writing crontab", crontab |-> current, job |-> jobEntry]
        ELSE [err |-> "nil", crontab |-> newCrontab, job |-> jobEntry]

\* the effect of one InstallCronJob call on the crontab and its history
CronCall(r) ==
    /\ crontab' = r.crontab
    /\ prevCrontab' = IF r.err = "nil" THEN crontab ELSE prevCrontab
    /\ lastJob' = IF r.err = "nil" THEN r.job ELSE lastJob
    /\ installs' = installs + 1

\* lines other programs or the user may have put in the crontab, one of them
\* a job an earlier giterdone left there
CronLines ==
    { "MAILTO=me", "", "5 4 * * * sync",
      "0 0 * * * /old/giterdone --run-now # Giterdone backup job" }

InitialCrontabs ==
    { StringsJoin(ls, "\n") \o end :
        ls \in SeqsUpTo(CronLines, MaxCronLines), end \in { "", "\n" } }

Frequencies == { "hourly", "Daily", "*/10 * * * *", "fortnightly" }

AppPaths == { "/usr/bin/giterdone", "/opt/g" }

InitCron ==
    /\ fs = MkFs({}, <<>>)
    /\ includePaths = <<>>
    /\ ScannerIdle
    /\ MainNotRun
    /\ crontab \in InitialCrontabs
    /\ prevCrontab = ""
    /\ lastJob = ""
    /\ installs = 0

\* a run of giterdone reaches "cron.InstallCronJob(cfg.BackupFrequency,
\* executablePath)"
CallInstallCronJob ==
    /\ installs < MaxInstalls
    /\ \E frequency \in Frequencies, appPath \in AppPaths, readOk, writeOk \in BOOLEAN :
           CronCall(InstallCronJob(crontab, frequency, appPath, readOk, writeOk))
    /\ UNCHANGED <<scanVars, mainVars>>

NextCron == CallInstallCronJob

SpecCron == InitCron /\ [][NextCron]_vars

-----------------------------------------------------------------------------
(* Package config: LoadConfig, and the errors it hands to main *)

\* error values: nil, an error of package os with the errno it carries, and
\* what fmt.Errorf("...: %w", err) makes of an error
Nil == [kind |-> "nil", errno |-> ""]
PathError(errno) == [kind |-> "PathError", errno |-> errno]
SyntaxError == [kind |-> "SyntaxError", errno |-> ""]
ErrorString == [kind |-> "errorString", errno |-> ""]
Errorf(err) == [kind |-> "wrapError", errno |-> err.errno]

\* os.IsNotExist(err): looks inside the error types of package os only
IsNotExist(err) ==
    err.kind \in { "PathError", "LinkError", "SyscallError" } /\ err.errno = "ENOENT"

\* the Config values of the model
Configs ==
    [ GitHubRepo : { "", "https://h/r" },
      AuthMethod : { "ssh", "pat" },
      BackupFrequency : { "hourly", "fortnightly" } ]

\* what may be found where the config file belongs
ConfigFiles ==
    [ state : { "valid" }, cfg : Configs ]
      \cup [ state : { "nohome", "missing", "unreadable", "malformed" },
             cfg : { NoConfig } ]

\* ioutil.ReadFile(configPath)
ReadFile(file) ==
    CASE file.state = "missing"    -> PathError("ENOENT")
      [] file.state = "unreadable" -> PathError("EACCES")
      [] OTHER                     -> Nil

LoadConfig(file) ==
    IF file.state = "nohome"
    THEN [cfg |-> NoConfig, err |-> Errorf(ErrorString)]
    ELSE IF ReadFile(file) # Nil
    THEN [cfg |-> NoConfig, err |-> Errorf(ReadFile(file))]
    ELSE IF file.state = "malformed"
    THEN [cfg |-> NoConfig, err |-> Errorf(SyntaxError)]
    ELSE [cfg |-> file.cfg, err |-> Nil]

-----------------------------------------------------------------------------
(* Package git, as main uses it *)

Op(name, ok) == [op |-> name, ok |-> ok]

\* the remote URL SetRemoteOrigin and CloneRepo use: with the token in it for
\* PAT authentication over https
OriginFor(c) ==
    IF c.AuthMethod = "pat" /\ HasPrefix(c.GitHubRepo, "https://")
    THEN "with-pat" ELSE "plain"

\* SetRemoteOrigin(cfg.GitHubRepo, cfg) on repository r
SetRemoteOrigin(r, c, ok) ==
    [ repo |-> IF ok THEN [r EXCEPT !.origin = OriginFor(c)] ELSE r,
      ops |-> << Op("git remote", ok) >>,
      err |-> IF ok THEN "nil" ELSE "failed to set remote origin" ]

\* InitRepo(): nothing to do inside a repository
InitRepo(r, ok) ==
    IF r.isRepo THEN [repo |-> r, ops |-> <<>>, err |-> "nil"]
    ELSE [ repo |-> IF ok THEN [r EXCEPT !.isRepo = TRUE] ELSE r,
           ops |-> << Op("git init", ok) >>,
           err |-> IF ok THEN "nil" ELSE "failed to initialize git repo" ]

\* CloneRepo(cfg.GitHubRepo, cfg)
CloneRepo(r, c, ok) ==
    [ repo |-> IF ok THEN [isRepo |-> TRUE, origin |-> OriginFor(c)] ELSE r,
      ops |-> << Op("git clone", ok) >>,
      err |-> IF ok THEN "nil" ELSE "error cloning repo" ]

\* Push(cfg): the remote is set again when the token is not in its URL
Push(r, c, remoteOk, pushOk) ==
    IF c.AuthMethod = "pat" /\ HasPrefix(c.GitHubRepo, "https://")
       /\ r.origin # "with-pat"
    THEN LET set == SetRemoteOrigin(r, c, remoteOk)
         IN  IF set.err # "nil"
             THEN [repo |-> set.repo, ops |-> set.ops,
                   err |-> "failed to set remote origin for push with PAT"]
             ELSE [repo |-> set.repo, ops |-> Append(set.ops, Op("git push", pushOk)),
                   err |-> IF pushOk THEN "nil" ELSE "error pushing"]
    ELSE [repo |-> r, ops |-> << Op("git push", pushOk) >>,
          err |-> IF pushOk THEN "nil" ELSE "error pushing"]

-----------------------------------------------------------------------------
(* Package main: the Action of the command *)

\* "if err != nil || forceInit { if os.IsNotExist(err) || forceInit": where
\* main goes after LoadConfig
ConfigDecision(err, forceInit) ==
    IF err # Nil \/ forceInit
    THEN IF IsNotExist(err) \/ forceInit THEN "wizard" ELSE "error"
    ELSE "logger"

\* the dry-run flag not looked at: every run writes and pushes
DryRun_Off == FALSE

\* "dryRun := c.Bool("dry-run")"
DryRun == flags.dryRun

\* "c.Bool("run-now") || (!c.Bool("init") && !c.Bool("status"))"
BackupWanted == flags.runNow \/ (~flags.init /\ ~flags.status)

\* step 1 of the backup: clone or initialise the repository, set its remote
EnsureRepo(r, c, cloneOk, initOk, remoteOk) ==
    IF ~r.isRepo
    THEN IF c.GitHubRepo # ""
         THEN LET clone == CloneRepo(r, c, cloneOk)
              IN  IF clone.err = "nil" THEN clone
                  ELSE LET init == InitRepo(r, initOk)
                           set == SetRemoteOrigin(init.repo, c, remoteOk)
                       IN  IF init.err # "nil"
                           THEN [init EXCEPT !.ops = clone.ops \o @]
                           ELSE [set EXCEPT !.ops = clone.ops \o init.ops \o @]
         ELSE InitRepo(r, initOk)
    ELSE IF r.origin = "none" /\ c.GitHubRepo # ""
    THEN SetRemoteOrigin(r, c, remoteOk)
    ELSE [repo |-> r, ops |-> <<>>, err |-> "nil"]

\* the Action returns err
Return(err) ==
    /\ step' = "done"
    /\ result' = err

\* the Action goes on to the step named
Goto(next) ==
    /\ step' = next
    /\ result' = result

\* the trees and include paths main is run on: one tree where nothing is
\* excluded, one where a file is
MainTrees ==
    { MkFs(L, [ q \in L |-> IF q = "d/notes" THEN AtCeiling ELSE File(0) ]) :
        L \in { {"d/notes"}, {"d/notes", "d/report.log"} } }

MainIncludePaths == { <<"d">> }

\* the Config values the wizard can return: it asks again until the
\* repository is not empty and the frequency is one it knows or a cron spec
WizardConfigs ==
    { c \in Configs : c.GitHubRepo # "" /\ frequencyToCronSpec(c.BackupFrequency).ok }

\* what ./.gitignore may hold before the run: nothing, or a rule of the user
GitignoresBefore == { "", "*.o\n" }

\* os.Executable()
executablePath == "/usr/bin/giterdone"

InitMain ==
    /\ fs \in MainTrees
    /\ includePaths \in MainIncludePaths
    /\ ScannerIdle
    /\ flags \in [init : BOOLEAN, status : BOOLEAN, runNow : BOOLEAN, dryRun : BOOLEAN]
    /\ configFile \in ConfigFiles
    /\ cfg = NoConfig
    /\ step = "start"
    /\ repo \in { [isRepo |-> FALSE, origin |-> "none"],
                  [isRepo |-> TRUE, origin |-> "none"],
                  [isRepo |-> TRUE, origin |-> "plain"] }
    /\ gitignore \in GitignoresBefore
    /\ ops = <<>>
    /\ logged = <<>>
    /\ result = "running"
    /\ CronNotRun

\* "cfg, err := config.LoadConfig()" and the decision on its error
MainLoadConfig ==
    /\ step = "start"
    /\ LET r == LoadConfig(configFile)
           next == ConfigDecision(r.err, flags.init)
       IN  /\ cfg' = r.cfg
           /\ IF next = "error" THEN Return("error loading config") ELSE Goto(next)
    /\ UNCHANGED <<scanVars, cronVars, flags, configFile, repo, gitignore, ops, logged>>

\* "cfg, err = config.RunSetupWizard()": the answers make a Config, which is
\* saved, or a prompt or the save fails
MainRunSetupWizard ==
    /\ step = "wizard"
    /\ \/ /\ Return("setup wizard failed")
          /\ UNCHANGED <<cfg, configFile, includePaths>>
       \/ \E c \in WizardConfigs, paths \in MainIncludePaths :
              /\ cfg' = c
              /\ includePaths' = paths
              /\ configFile' = [state |-> "valid", cfg |-> c]
              /\ Goto("logger")
    /\ UNCHANGED <<fs, pc, i, filesToInclude, patternsToExclude, visits, calls,
                   prevResult, content>>
    /\ UNCHANGED <<cronVars, flags, repo, gitignore, ops, logged>>

\* utils.InitLogger(cfg.LogPath), then the --status branch is taken or not
MainInitLogger ==
    /\ step = "logger"
    /\ \/ Return("failed to initialize logger")
       \/ Goto(IF flags.status THEN "status" ELSE "executable")
    /\ UNCHANGED <<scanVars, cronVars, flags, configFile, cfg, repo, gitignore,
                   ops, logged>>

\* --status: the configuration is printed and the Action returns nil
MainStatus ==
    /\ step = "status"
    /\ Return("nil")
    /\ UNCHANGED <<scanVars, cronVars, flags, configFile, cfg, repo, gitignore,
                   ops, logged>>

\* os.Executable(), then the backup is entered or passed over
MainExecutable ==
    /\ step = "executable"
    /\ \/ Return("failed to get executable path") /\ UNCHANGED logged
       \/ IF BackupWanted
          THEN Goto("dirty") /\ logged' = Append(logged, "Performing backup...")
          ELSE Goto("cron") /\ UNCHANGED logged
    /\ UNCHANGED <<scanVars, cronVars, flags, configFile, cfg, repo, gitignore, ops>>

\* "if git.IsGitRepo() { isDirty, err := git.IsGitDirty()"
MainCheckDirty ==
    /\ step = "dirty"
    /\ IF repo.isRepo
       THEN \/ Return("failed to check git dirty status") /\ UNCHANGED logged
            \/ Goto("repo") /\ UNCHANGED logged
            \/ Goto("repo") /\ logged' = Append(logged, "Warning: Git repository is dirty.")
       ELSE Goto("repo") /\ UNCHANGED logged
    /\ UNCHANGED <<scanVars, cronVars, flags, configFile, cfg, repo, gitignore, ops>>

\* "1. Initialize/clone repo if not exists"
MainEnsureRepo ==
    /\ step = "repo"
    /\ \E cloneOk, initOk, remoteOk \in BOOLEAN :
           LET r == EnsureRepo(repo, cfg, cloneOk, initOk, remoteOk)
           IN  /\ repo' = r.repo
               /\ ops' = ops \o r.ops
               /\ IF r.err = "nil" THEN Goto("scan") ELSE Return(r.err)
    /\ UNCHANGED <<scanVars, cronVars, flags, configFile, cfg, gitignore, logged>>

\* "filesToInclude, patternsToExclude := scanner.ScanFiles(cfg.IncludePaths)"
MainScanFiles ==
    /\ step = "scan"
    /\ LET acc == ScanFiles(fs, includePaths)
       IN  /\ filesToInclude' = acc.inc
           /\ patternsToExclude' = acc.exc
           /\ visits' = acc.vis
    /\ Goto("gitignore")
    /\ UNCHANGED <<fs, includePaths, pc, i, calls, prevResult, content>>
    /\ UNCHANGED <<cronVars, flags, configFile, cfg, repo, gitignore, ops, logged>>

\* "if len(patternsToExclude) > 0": the text is generated, and written unless
\* this is a dry run
MainGitignore ==
    /\ step = "gitignore"
    /\ IF Len(patternsToExclude) > 0
       THEN /\ content' = GenerateGitignoreContent(patternsToExclude)
            /\ IF ~DryRun
               THEN \/ /\ gitignore' = content'
                       /\ ops' = Append(ops, Op("write .gitignore", TRUE))
                       /\ logged' = Append(logged, ".gitignore generated.")
                       /\ Goto("add")
                    \/ /\ gitignore' \in { gitignore, "" }
                       /\ ops' = Append(ops, Op("write .gitignore", FALSE))
                       /\ UNCHANGED logged
                       /\ Return("failed to write .gitignore")
               ELSE /\ logged' = Append(logged, "Dry run: Skipping .gitignore generation.")
                    /\ Goto("add")
                    /\ UNCHANGED <<gitignore, ops>>
       ELSE /\ Goto("add")
            /\ UNCHANGED <<content, gitignore, ops, logged>>
    /\ UNCHANGED <<fs, includePaths, pc, i, filesToInclude, patternsToExclude,
                   visits, calls, prevResult>>
    /\ UNCHANGED <<cronVars, flags, configFile, cfg, repo>>

\* "git.AddFiles(filesToInclude)" unless this is a dry run; what AddFiles
\* returns is not looked at
MainAddFiles ==
    /\ step = "add"
    /\ IF ~DryRun
       THEN /\ \E ok \in BOOLEAN : ops' = Append(ops, Op("git add", ok))
            /\ UNCHANGED logged
       ELSE /\ logged' = Append(logged, "Dry run: Skipping adding files to git.")
            /\ UNCHANGED ops
    /\ Goto("commit")
    /\ UNCHANGED <<scanVars, cronVars, flags, configFile, cfg, repo, gitignore>>

\* "3. Commit with templated message": the template may fail; what Commit
\* returns is not looked at
MainCommit ==
    /\ step = "commit"
    /\ \/ /\ Return("failed to generate commit message")
          /\ UNCHANGED <<ops, logged>>
       \/ /\ IF ~DryRun
             THEN /\ \E ok \in BOOLEAN : ops' = Append(ops, Op("git commit", ok))
                  /\ UNCHANGED logged
             ELSE /\ logged' = Append(logged, "Dry run: Skipping commit.")
                  /\ UNCHANGED ops
          /\ Goto("push")
    /\ UNCHANGED <<scanVars, cronVars, flags, configFile, cfg, repo, gitignore>>

\* "4. Push to remote", what Push returns is not looked at, and the closing
\* log message of the backup
MainPush ==
    /\ step = "push"
    /\ IF ~DryRun
       THEN \E remoteOk, pushOk \in BOOLEAN :
                LET r == Push(repo, cfg, remoteOk, pushOk)
                IN  /\ repo' = r.repo
                    /\ ops' = ops \o r.ops
                    /\ logged' = Append(logged, "Backup completed.")
       ELSE /\ logged' = logged \o << "Dry run: Skipping push to remote.",
                                      "Backup completed." >>
            /\ UNCHANGED <<repo, ops>>
    /\ Goto("cron")
    /\ UNCHANGED <<scanVars, cronVars, flags, configFile, cfg, gitignore>>

\* "5. Install cron job": the crontab is written when the frequency is a
\* known one and the crontab could be read
MainInstallCronJob ==
    /\ step = "cron"
    /\ \E readOk, writeOk \in BOOLEAN :
           LET r == InstallCronJob(crontab, cfg.BackupFrequency, executablePath,
                                   readOk, writeOk)
           IN  /\ CronCall(r)
               /\ ops' = IF r.job # ""
                         THEN Append(ops, Op("crontab -", r.err = "nil"))
                         ELSE ops
               /\ Return(IF r.err = "nil" THEN "nil" ELSE "failed to install cron job")
    /\ UNCHANGED <<scanVars, flags, configFile, cfg, repo, gitignore, logged>>

NextMain ==
    \/ MainLoadConfig
    \/ MainRunSetupWizard
    \/ MainInitLogger
    \/ MainStatus
    \/ MainExecutable
    \/ MainCheckDirty
    \/ MainEnsureRepo
    \/ MainScanFiles
    \/ MainGitignore
    \/ MainAddFiles
    \/ MainCommit
    \/ MainPush
    \/ MainInstallCronJob

SpecMain == InitMain /\ [][NextMain]_vars

-----------------------------------------------------------------------------
(* C12 *)

\* the commands of a backup that --dry-run leaves out
BackupWrites == { "write .gitignore", "git add", "git commit", "git push" }

\* C12: in a run with --dry-run no write of .gitignore, git add, git commit
\* or git push is ever made and .gitignore keeps the text it had; in a run
\* without --dry-run whose scan excluded something, every git add comes after
\* a successful write of .gitignore, and .gitignore then holds exactly the
\* text generated from patternsToExclude.
C12_DryRun ==
    /\ flags.dryRun =>
           /\ \A k \in DOMAIN ops : ops[k].op \notin BackupWrites
           /\ gitignore \in GitignoresBefore
    /\ (~flags.dryRun /\ Len(patternsToExclude) > 0) =>
           \A k \in DOMAIN ops :
               ops[k].op = "git add" =>
                   /\ \E j \in 1..(k - 1) : ops[j] = Op("write .gitignore", TRUE)
                   /\ gitignore = GenerateGitignoreContent(patternsToExclude)

\* C12 witness: a --dry-run backup that ran to its end with entries to
\* exclude, logged "Backup completed." and returned nil.
C12_Witness ==
    /\ flags.dryRun
    /\ step = "done"
    /\ result = "nil"
    /\ Len(patternsToExclude) > 0
    /\ content # ""
    /\ \E k \in DOMAIN logged : logged[k] = "Backup completed."

-----------------------------------------------------------------------------
(* C13 *)

\* C13 as stated: in a run without --init where no config file exists,
\* LoadConfig's error is taken as "not found": the run goes on to the setup
\* wizard and does not return the config-loading error; while the file is
\* still missing the run can only have ended by the wizard failing.
C13_Claim ==
    (configFile.state = "missing" /\ ~flags.init /\ step # "start") =>
        /\ result # "error loading config"
        /\ step = "done" => result = "setup wizard failed"

-----------------------------------------------------------------------------
(* C14 *)

\* the lines of a text file: the pieces its newlines end, and what follows
\* the last newline when that is not empty
Lines(text) ==
    LET pieces == Split(text, "\n")
    IN  IF pieces[Len(pieces)] = "" THEN SubSeq(pieces, 1, Len(pieces) - 1)
        ELSE pieces

MarkerLines(text) == SelectSeq(Lines(text), LAMBDA line : Contains(line, Marker))

OtherLines(text) == SelectSeq(Lines(text), LAMBDA line : ~Contains(line, Marker))

\* C14 as stated: once an InstallCronJob call has succeeded, whatever the
\* crontab was before and however many calls were made, the crontab has
\* exactly one line with the marker "# Giterdone backup job", and that line
\* is the entry the most recent successful call built.
C14_Claim ==
    lastJob # "" => MarkerLines(crontab) \o << "" >> = Split(lastJob, "\n")

-----------------------------------------------------------------------------
(* C15 *)

\* C15 as stated: a successful InstallCronJob call keeps every line of the
\* crontab it read that does not carry the marker, as a line of its own,
\* with the same text and in the same order, whether or not the last line it
\* read ended in a newline, and the job entry it built is a line of its own.
C15_Claim ==
    lastJob # "" =>
        /\ OtherLines(crontab) = OtherLines(prevCrontab)
        /\ \E k \in DOMAIN Lines(crontab) : Lines(crontab)[k] \o "\n" = lastJob

-----------------------------------------------------------------------------
(* C16 *)

\* C16 as stated: a run with --dry-run makes no git clone, no git init and
\* no change of the remote origin, leaves the repository as it was and does
\* not write the crontab.
C16_Claim ==
    flags.dryRun =>
        /\ \A k \in DOMAIN ops :
               ops[k].op \notin { "git clone", "git init", "git remote", "crontab -" }
        /\ crontab = ""

-----------------------------------------------------------------------------
(* C17 *)

GitSteps == { "git add", "git commit", "git push" }

\* the commands of the backup pipeline, in the order the claim gives them
StepOrder ==
    << "write .gitignore", "git add", "git commit", "git push", "crontab -" >>

StepRank(op) ==
    IF \E n \in DOMAIN StepOrder : StepOrder[n] = op
    THEN CHOOSE n \in DOMAIN StepOrder : StepOrder[n] = op
    ELSE 0

\* C17 as stated: in a run without --dry-run the commands come in the order
\* write .gitignore, git add, git commit, git push, crontab; and once git
\* add, git commit or git push has failed, no later git step and no crontab
\* write is made, "Backup completed." is not logged, and the run does not
\* return nil.
C17_Claim ==
    ~flags.dryRun =>
        /\ \A j, k \in DOMAIN ops :
               (j < k /\ StepRank(ops[j].op) > 0 /\ StepRank(ops[k].op) > 0)
                   => StepRank(ops[j].op) < StepRank(ops[k].op)
        /\ \A k \in DOMAIN ops :
               (ops[k].op \in GitSteps /\ ~ops[k].ok) =>
                   /\ \A j \in DOMAIN ops :
                          j > k => ops[j].op \notin GitSteps \cup { "crontab -" }
                   /\ \A m \in DOMAIN logged : logged[m] # "Backup completed."
                   /\ result # "nil"

====
